---- MODULE Spec2Model ----
(***************************************************************************)
(* Model of the JSON-RPC batch relay: BatchRequest / BatchResponse         *)
(* (src/src/batch.rs) and Relay (src/src/relay.rs).                        *)
(*                                                                         *)
(* A Rust Result is a record [ok |-> TRUE, ...] or [ok |-> FALSE, err].    *)
(* A serde_json Value of a request is the record [id, method, params].     *)
(* An entry of BatchResponse.responses is the pair <<id, body>>, body the  *)
(* Result<Box<RawValue>, JsonRpcError> of the Rust tuple.                  *)
(***************************************************************************)
EXTENDS Integers, Sequences, FiniteSets, TLC

\* ------------------------------------------------------------------ bounds
\* Callers (async tasks) sharing the relays.
Tasks == {"t1", "t2"}
\* Relay instances.
Relays == {"relay"}
\* Largest number of requests a caller puts in one batch.
MaxBatch == 2
\* Cap on a relay's id counter where one caller runs the whole pipeline.
\* The counter is an AtomicU64; its wrap at 2^64 lies beyond every cap.
MaxId == 3
\* Cap on a relay's id counter where callers run concurrently.
MaxIdConc == 4
\* Longest response array the server sends back.
MaxResp == 3
\* next_response calls made after a BatchResponse is exhausted.
ExtraCalls == 2
\* The scenario of two concurrent batches: the counter value it starts
\* from and the sizes of the two batches.
StartId == 10
SizeA == 3
SizeB == 2

Methods == {"eth_getStorageAt"}
\* Values handed to add_request as params; the last one cannot be encoded
\* (serde_json::to_value fails on it, e.g. a map with non-string keys).
Params == {"addr1", "unserializable"}
\* Result payloads (RawValue): JSON text with the JSON type it parses to.
RawValues == {[json |-> "string", text |-> "0x0"], [json |-> "string", text |-> "0x1"]}
\* JSON numbers a single response may carry as its result: the sign, whether
\* the literal has a fraction or an exponent, and its integer digits. They
\* are 7, -1, 1.5, 2^64 - 1 and 2^64.
RawNumbers ==
    {[json |-> "number", neg |-> FALSE, frac |-> FALSE, digits |-> <<7>>],
     [json |-> "number", neg |-> TRUE, frac |-> FALSE, digits |-> <<1>>],
     [json |-> "number", neg |-> FALSE, frac |-> TRUE, digits |-> <<1>>],
     [json |-> "number", neg |-> FALSE, frac |-> FALSE,
      digits |-> <<1, 8, 4, 4, 6, 7, 4, 4, 0, 7, 3, 7, 0, 9, 5, 5, 1, 6, 1, 5>>],
     [json |-> "number", neg |-> FALSE, frac |-> FALSE,
      digits |-> <<1, 8, 4, 4, 6, 7, 4, 4, 0, 7, 3, 7, 0, 9, 5, 5, 1, 6, 1, 6>>]}
\* The per-entry JSON-RPC error object.
JsonRpcErrors == {[code |-> -32000, message |-> "execution reverted"]}
\* Target types T of next_response::<T>.
TargetTypes == {"String", "u64"}
\* The target type the caller of the whole pipeline decodes into.
PipelineTypes == {"String"}

\* ------------------------------------------------------------ jsonrpc types
\* Request::new(id, method, params) serialized with serde_json::to_value.
RequestNew(i, method, params) == [id |-> i, method |-> method, params |-> params]

\* serde_json::to_value(&Request): fails when params cannot be encoded.
ToValue(request) ==
    IF request.params = "unserializable"
    THEN [ok |-> FALSE, err |-> "JsonError"]
    ELSE [ok |-> TRUE, val |-> request]

\* The three shapes of the Response enum.
ResponseSuccess(i, result) == [type |-> "Success", id |-> i, result |-> result]

ResponseError(i, error) == [type |-> "Error", id |-> i, error |-> error]

ResponseNotification(method) == [type |-> "Notification", method |-> method]

\* The digits of u64::MAX, 2^64 - 1.
U64MaxDigits == <<1, 8, 4, 4, 6, 7, 4, 4, 0, 7, 3, 7, 0, 9, 5, 5, 1, 6, 1, 5>>

\* Whether a JSON number is one from_str::<u64> accepts: an integer literal
\* without sign, fraction or exponent, written without leading zeros, that
\* is at most u64::MAX.
IsU64(raw) ==
    LET d == raw.digits
    IN /\ ~raw.neg
       /\ ~raw.frac
       /\ Len(d) >= 1
       /\ Len(d) > 1 => d[1] # 0
       /\ \/ Len(d) < Len(U64MaxDigits)
          \/ /\ Len(d) = Len(U64MaxDigits)
             /\ \/ d = U64MaxDigits
                \/ \E k \in 1..Len(d) :
                       /\ d[k] < U64MaxDigits[k]
                       /\ \A j \in 1..(k - 1) : d[j] = U64MaxDigits[j]

\* serde_json::from_str::<T>(raw): a JSON string decodes to String and not
\* to u64; a JSON number decodes to u64 when it is an integer in
\* 0..2^64-1 and never to String.
FromStr(T, raw) ==
    IF T = "String" /\ raw.json = "string" THEN [ok |-> TRUE, val |-> raw.text]
    ELSE IF T = "u64" /\ raw.json = "number" /\ IsU64(raw)
         THEN [ok |-> TRUE, val |-> raw.digits]
         ELSE [ok |-> FALSE, err |-> "JsonError"]

\* ------------------------------------------------------------ BatchRequest
EmptyBatch == [ok |-> FALSE, err |-> "EmptyBatch"]

BatchRequest_new == << >>

BatchRequest_len(reqs) == Len(reqs)

BatchRequest_is_empty(reqs) == Len(reqs) = 0

\* An add_request that numbers the request with its position in the batch.
AddRequestNumbers(reqs, method, params) ==
    LET v == ToValue(RequestNew(Len(reqs), method, params))
    IN IF v.ok
       THEN [res |-> [ok |-> TRUE], requests |-> Append(reqs, v.val)]
       ELSE [res |-> v, requests |-> reqs]

\* add_request: returns the Result and the batch after the call.
add_request(reqs, method, params) ==
    LET v == ToValue(RequestNew(0, method, params))
    IN IF v.ok
       THEN [res |-> [ok |-> TRUE], requests |-> Append(reqs, v.val)]
       ELSE [res |-> v, requests |-> reqs]

\* A requests_mut without the emptiness check.
RequestsMutUnchecked(reqs) == [ok |-> TRUE, val |-> reqs]

\* requests_mut / requests: the slice, or EmptyBatch for an empty batch.
requests_mut(reqs) ==
    IF ~BatchRequest_is_empty(reqs) THEN [ok |-> TRUE, val |-> reqs] ELSE EmptyBatch

requests_ref(reqs) ==
    IF ~BatchRequest_is_empty(reqs) THEN [ok |-> TRUE, val |-> reqs] ELSE EmptyBatch

\* A set_ids that never advances first.
StampIdsNoIncrement(reqs, first) ==
    [i \in 1..Len(reqs) |-> [reqs[i] EXCEPT !.id = first]]

\* The loop of set_ids: request i (1-based) gets first + (i - 1).
StampIds(reqs, first) ==
    [i \in 1..Len(reqs) |-> [reqs[i] EXCEPT !.id = first + (i - 1)]]

\* set_ids: returns the Result and the batch after the call.
set_ids(reqs, first) ==
    LET r == requests_mut(reqs)
    IN IF r.ok
       THEN [res |-> [ok |-> TRUE], requests |-> StampIds(r.val, first)]
       ELSE [res |-> r, requests |-> reqs]

\* ----------------------------------------------------------- BatchResponse
\* The (id, Result) pair the constructor maps a Response to.
ResponseEntry(response) ==
    IF response.type = "Success"
    THEN <<response.id, [ok |-> TRUE, val |-> response.result]>>
    ELSE <<response.id, [ok |-> FALSE, err |-> response.error]>>

\* One insertion of a stable sort by Reverse(id): e goes behind every entry
\* whose id is greater than or equal to its own.
RECURSIVE InsertDesc(_, _)
InsertDesc(sorted, e) ==
    IF sorted = << >> THEN <<e>>
    ELSE IF Head(sorted)[1] >= e[1]
         THEN <<Head(sorted)>> \o InsertDesc(Tail(sorted), e)
         ELSE <<e>> \o sorted

\* A constructor that keeps the entries in their arrival order.
KeepArrivalOrder(entries) == entries

\* responses.sort_by_key(|(id, _)| Reverse(*id)): stable, descending id.
RECURSIVE SortByKeyReverse(_)
SortByKeyReverse(entries) ==
    IF entries = << >> THEN << >>
    ELSE InsertDesc(SortByKeyReverse(SubSeq(entries, 1, Len(entries) - 1)),
                    entries[Len(entries)])

\* The match of the constructor reaches unreachable!() on a Notification.
HitsUnreachable(resps) == \E i \in 1..Len(resps) : resps[i].type = "Notification"

\* BatchResponse::new(responses), for responses that are Success or Error.
BatchResponse_new(resps) ==
    SortByKeyReverse([i \in 1..Len(resps) |-> ResponseEntry(resps[i])])

\* An id() that reads the first entry of the vector.
BatchResponseIdOfFirst(entries) ==
    IF Len(entries) > 0 THEN [ok |-> TRUE, val |-> entries[1][1]] ELSE EmptyBatch

\* BatchResponse::id: the id of the last entry of the vector.
BatchResponse_id(entries) ==
    IF Len(entries) > 0
    THEN [ok |-> TRUE, val |-> entries[Len(entries)][1]]
    ELSE EmptyBatch

BatchResponse_len(entries) == Len(entries)

BatchResponse_is_empty(entries) == Len(entries) = 0

\* The Result next_response::<T> makes of a popped body.
DecodeBody(T, body) ==
    IF body.ok
    THEN LET d == FromStr(T, body.val)
         IN IF d.ok THEN [some |-> TRUE, ok |-> TRUE, val |-> d.val]
                    ELSE [some |-> TRUE, ok |-> FALSE, err |-> "JsonError"]
    ELSE [some |-> TRUE, ok |-> FALSE, err |-> "JsonRpcError"]

\* A next_response that pops only the entries it can return as Ok.
NextResponseKeepsFailed(entries, T) ==
    IF Len(entries) = 0
    THEN [ret |-> [some |-> FALSE], responses |-> entries]
    ELSE LET r == DecodeBody(T, entries[Len(entries)][2])
         IN [ret |-> r,
             responses |-> IF r.ok THEN SubSeq(entries, 1, Len(entries) - 1) ELSE entries]

\* A next_response that gives up the rest of the batch at an error entry.
NextResponseStopsAtError(entries, T) ==
    IF Len(entries) = 0
    THEN [ret |-> [some |-> FALSE], responses |-> entries]
    ELSE [ret |-> DecodeBody(T, entries[Len(entries)][2]),
          responses |-> IF entries[Len(entries)][2].ok
                        THEN SubSeq(entries, 1, Len(entries) - 1) ELSE << >>]

\* next_response::<T>: pops the last entry; returns the Option and the
\* vector after the call.
next_response(entries, T) ==
    IF Len(entries) = 0
    THEN [ret |-> [some |-> FALSE], responses |-> entries]
    ELSE [ret |-> DecodeBody(T, entries[Len(entries)][2]),
          responses |-> SubSeq(entries, 1, Len(entries) - 1)]

\* ------------------------------------------------------------------- Relay
\* Relay::new: the counter starts at 0.
Relay_new == 0

\* A clone that carries the counter of the relay it is made from.
RelayCloneCopiesCounter(cur) == cur

\* <Relay as Clone>::clone: the counter of the new relay is AtomicU64::new(1),
\* whatever the counter of the relay it is made from holds.
Relay_clone(cur) == 1

\* A reservation that advances the counter by one whatever the batch holds.
FetchAddOne(cur, n) == [prev |-> cur, new |-> cur + 1]

\* AtomicU64::fetch_add(n, SeqCst): the previous value and the new one.
fetch_add(cur, n) == [prev |-> cur, new |-> cur + n]

\* The ids first, first+1, ..., first+n-1.
Block(first, n) == first..(first + n - 1)

\* The ids carried by the requests of a batch or of a posted payload.
PayloadIds(payload) == {payload[i].id : i \in 1..Len(payload)}

\* serde_json::from_str::<Vec<Response>>(&text): the body of the HTTP
\* response is a JSON array of responses, or text that does not parse.
ParseBatch(text) ==
    IF text.json = "array"
    THEN [ok |-> TRUE, val |-> text.elems]
    ELSE [ok |-> FALSE, err |-> "SerdeJson", text |-> text]

\* serde_json::from_str::<Response>(&text) of a single response.
ParseSingle(text) ==
    IF text.json = "object"
    THEN [ok |-> TRUE, val |-> text.elem]
    ELSE [ok |-> FALSE, err |-> "SerdeJson", text |-> text]

\* -------------------------------------------------------------- the server
\* What a response carries besides its id: a result or an error object.
Bodies == {[type |-> "Success", result |-> v] : v \in RawValues}
          \cup {[type |-> "Error", error |-> e] : e \in JsonRpcErrors}

\* The bodies of the arrays a BatchResponse is built from directly.
RespBodies == {b \in Bodies : b.type = "Error" \/ b.result.text = "0x1"}

MakeResponse(i, b) ==
    IF b.type = "Success" THEN ResponseSuccess(i, b.result) ELSE ResponseError(i, b.error)

\* Every response with one of the ids and one of the bodies.
ResponsesOver(ids, bodies) == {MakeResponse(i, b) : i \in ids, b \in bodies}

\* Every array of at most n of the responses, in any order, with responses
\* missing or repeated.
ArraysOver(resps, n) == UNION {[1..k -> resps] : k \in 0..n}

Garbage == [json |-> "garbage"]

JsonArray(elems) == [json |-> "array", elems |-> elems]

JsonObject(elem) == [json |-> "object", elem |-> elem]

\* ------------------------------------------------------------------ state
VARIABLES
    id,         \* Relay.id of each relay: the next id to hand out
    requests,   \* BatchRequest.requests of each caller's batch
    call,       \* each caller's call in flight at its await point
    held,       \* whether the caller holds a BatchResponse
    responses,  \* BatchResponse.responses of the batch the caller holds
    ret,        \* what each caller's last call returned
    posts,      \* payloads the caller's last relay call handed to the transport
    block,      \* history: the counter before the caller's last relay call and its advance
    issued,     \* history: every id put into a request under a relay's counter
    reused,     \* history: the ids a relay's calls put into a request more than once
    origin,     \* history: first id and length of the batch the held BatchResponse answers
    arrival,    \* history: the response array the held BatchResponse was built from
    drained,    \* history: the next_response calls made on the held BatchResponse
    stamped     \* history: how many requests of the batch a set_ids has stamped

vars == <<id, requests, call, held, responses, ret, posts, block, issued, reused, origin, arrival, drained, stamped>>

NoCall == [op |-> "none", relay |-> "-", payload |-> << >>]

NoBlock == [relay |-> "-", first |-> 0, n |-> 0]

Init ==
    /\ id = [r \in Relays |-> Relay_new]
    /\ requests = [t \in Tasks |-> BatchRequest_new]
    /\ call = [t \in Tasks |-> NoCall]
    /\ held = [t \in Tasks |-> FALSE]
    /\ responses = [t \in Tasks |-> << >>]
    /\ ret = [t \in Tasks |-> [op |-> "none"]]
    /\ posts = [t \in Tasks |-> 0]
    /\ block = [t \in Tasks |-> NoBlock]
    /\ issued = [r \in Relays |-> {}]
    /\ reused = [r \in Relays |-> {}]
    /\ origin = [t \in Tasks |-> [first |-> 0, n |-> 0]]
    /\ arrival = [t \in Tasks |-> << >>]
    /\ drained = [t \in Tasks |-> << >>]
    /\ stamped = [t \in Tasks |-> 0]

\* ---------------------------------------------------------------- actions
\* batch.add_request(method, params) by caller t.
AddRequest(t, method, params, cap) ==
    /\ call[t].op = "none"
    /\ BatchRequest_len(requests[t]) < cap
    /\ LET a == add_request(requests[t], method, params)
       IN /\ requests' = [requests EXCEPT ![t] = a.requests]
          /\ ret' = [ret EXCEPT ![t] = [op |-> "add_request", res |-> a.res]]
    /\ UNCHANGED <<id, call, held, responses, posts, block, issued, reused, origin, arrival, drained, stamped>>

\* An execute_batch that posts the batch whatever set_ids and requests return.
ExecuteBatchSendUnchecked(cur, reqs) ==
    LET f == fetch_add(cur, BatchRequest_len(reqs))
        s == set_ids(reqs, f.prev)
    IN [id |-> f.new, next_id |-> f.prev, requests |-> s.requests,
        res |-> [ok |-> TRUE, payload |-> s.requests]]

\* execute_batch up to its first await: the block is reserved with one
\* fetch_add, the batch is stamped, and the payload is posted. The result
\* is the new counter, the batch, and either the payload or the error the
\* call returns with.
execute_batch_send(cur, reqs) ==
    LET f == fetch_add(cur, BatchRequest_len(reqs))
        s == set_ids(reqs, f.prev)
        q == requests_ref(s.requests)
    IN [id |-> f.new, next_id |-> f.prev, requests |-> s.requests,
        res |-> IF ~s.res.ok THEN [ok |-> FALSE, err |-> "BatchError", source |-> s.res.err]
                ELSE IF ~q.ok THEN [ok |-> FALSE, err |-> "BatchError", source |-> q.err]
                ELSE [ok |-> TRUE, payload |-> q.val]]

\* How many requests of a batch carry an id from set_ids: as many as before
\* when the call returned EmptyBatch, else all of them.
StampedCount(before, reqs, res) ==
    IF ~res.ok THEN before ELSE BatchRequest_len(reqs)

\* relay.execute_batch(&mut batch) by caller t, up to the await of send().
ExecuteBatch(t, r, cap) ==
    /\ call[t].op = "none"
    /\ id[r] + BatchRequest_len(requests[t]) <= cap
    /\ LET e == execute_batch_send(id[r], requests[t])
       IN /\ id' = [id EXCEPT ![r] = e.id]
          /\ requests' = [requests EXCEPT ![t] = e.requests]
          /\ block' = [block EXCEPT ![t] =
                 [relay |-> r, first |-> id[r], n |-> e.id - id[r]]]
          /\ issued' = [issued EXCEPT ![r] = @ \cup PayloadIds(e.requests)]
          /\ reused' = [reused EXCEPT ![r] = @ \cup (PayloadIds(e.requests) \cap issued[r])]
          /\ stamped' = [stamped EXCEPT ![t] = StampedCount(@, e.requests, e.res)]
          /\ IF e.res.ok
             THEN /\ call' = [call EXCEPT ![t] =
                        [op |-> "execute_batch", relay |-> r, payload |-> e.res.payload]]
                  /\ posts' = [posts EXCEPT ![t] = 1]
                  /\ ret' = [ret EXCEPT ![t] = [op |-> "execute_batch", res |-> [pending |-> TRUE]]]
             ELSE /\ call' = call
                  /\ posts' = [posts EXCEPT ![t] = 0]
                  /\ ret' = [ret EXCEPT ![t] = [op |-> "execute_batch", res |-> e.res]]
    /\ UNCHANGED <<held, responses, origin, arrival, drained>>

\* A transport failure that hands the reserved block back to the counter.
TransportErrorReclaims(t) ==
    /\ call[t].op # "none"
    /\ call' = [call EXCEPT ![t] = NoCall]
    /\ id' = [id EXCEPT ![call[t].relay] = block[t].first]
    /\ ret' = [ret EXCEPT ![t] =
           [op |-> call[t].op, res |-> [ok |-> FALSE, err |-> "ReqwestError"]]]
    /\ UNCHANGED <<requests, held, responses, posts, block, issued, reused, origin, arrival, drained, stamped>>

\* send().await or text().await fails: the call returns ReqwestError.
TransportError(t) ==
    /\ call[t].op # "none"
    /\ call' = [call EXCEPT ![t] = NoCall]
    /\ ret' = [ret EXCEPT ![t] =
           [op |-> call[t].op, res |-> [ok |-> FALSE, err |-> "ReqwestError"]]]
    /\ UNCHANGED <<id, requests, held, responses, posts, block, issued, reused, origin, arrival, drained, stamped>>

\* A cancellation that hands the reserved block back to the counter.
CancelReclaims(t) ==
    /\ call[t].op # "none"
    /\ call' = [call EXCEPT ![t] = NoCall]
    /\ id' = [id EXCEPT ![call[t].relay] = @ - block[t].n]
    /\ ret' = [ret EXCEPT ![t] = [op |-> call[t].op, res |-> [cancelled |-> TRUE]]]
    /\ UNCHANGED <<requests, held, responses, posts, block, issued, reused, origin, arrival, drained, stamped>>

\* The caller drops the future at its await point: nothing is returned.
Cancel(t) ==
    /\ call[t].op # "none"
    /\ call' = [call EXCEPT ![t] = NoCall]
    /\ ret' = [ret EXCEPT ![t] = [op |-> call[t].op, res |-> [cancelled |-> TRUE]]]
    /\ UNCHANGED <<id, requests, held, responses, posts, block, issued, reused, origin, arrival, drained, stamped>>

\* An execute_batch that builds the BatchResponse from the Success entries
\* of the array alone.
ExecuteBatchRecvKeepsSuccesses(text) ==
    LET p == ParseBatch(text)
    IN IF ~p.ok THEN p
       ELSE IF HitsUnreachable(p.val) THEN [ok |-> FALSE, err |-> "panic"]
       ELSE [ok |-> TRUE, array |-> p.val,
             val |-> BatchResponse_new(SelectSeq(p.val, LAMBDA x : x.type = "Success"))]

\* execute_batch after the body text arrived: parse, then construct.
execute_batch_recv(text) ==
    LET p == ParseBatch(text)
    IN IF ~p.ok THEN p
       ELSE IF HitsUnreachable(p.val) THEN [ok |-> FALSE, err |-> "panic"]
       ELSE [ok |-> TRUE, val |-> BatchResponse_new(p.val), array |-> p.val]

\* The body text of the HTTP response arrives and execute_batch returns.
BatchReply(t, text) ==
    /\ call[t].op = "execute_batch"
    /\ LET e == execute_batch_recv(text)
       IN IF e.ok
          THEN /\ held' = [held EXCEPT ![t] = TRUE]
               /\ responses' = [responses EXCEPT ![t] = e.val]
               /\ arrival' = [arrival EXCEPT ![t] = e.array]
               /\ origin' = [origin EXCEPT ![t] =
                      [first |-> call[t].payload[1].id, n |-> Len(call[t].payload)]]
               /\ drained' = [drained EXCEPT ![t] = << >>]
               /\ ret' = [ret EXCEPT ![t] = [op |-> "execute_batch", res |-> [ok |-> TRUE]]]
          ELSE /\ UNCHANGED <<held, responses, origin, arrival, drained>>
               /\ ret' = [ret EXCEPT ![t] = [op |-> "execute_batch", res |-> e]]
    /\ call' = [call EXCEPT ![t] = NoCall]
    /\ UNCHANGED <<id, requests, posts, block, issued, reused, stamped>>

\* responses.next_response::<T>() by caller t on the batch it holds.
NextResponse(t, T) ==
    /\ call[t].op = "none"
    /\ held[t]
    /\ Len(drained[t]) < Len(arrival[t]) + ExtraCalls
    /\ LET n == next_response(responses[t], T)
           popped == IF Len(responses[t]) > 0
                     THEN responses[t][Len(responses[t])][1] ELSE -1
       IN /\ responses' = [responses EXCEPT ![t] = n.responses]
          /\ drained' = [drained EXCEPT ![t] =
                 Append(@, [id |-> popped, T |-> T, ret |-> n.ret])]
          /\ ret' = [ret EXCEPT ![t] = [op |-> "next_response", res |-> n.ret]]
    /\ UNCHANGED <<id, requests, call, held, posts, block, issued, reused, origin, arrival, stamped>>

\* Relay::request up to its first await: one id is taken with fetch_add(1)
\* and the payload is posted; a payload that cannot be encoded makes
\* send() fail.
request_send(cur, method, params) ==
    LET f == fetch_add(cur, 1)
        v == ToValue(RequestNew(f.prev, method, params))
    IN [id |-> f.new, next_id |-> f.prev,
        res |-> IF v.ok THEN [ok |-> TRUE, payload |-> <<v.val>>]
                ELSE [ok |-> FALSE, err |-> "ReqwestError"]]

\* relay.request(method, params) by caller t, up to the await of send().
Request(t, r, method, params, cap) ==
    /\ call[t].op = "none"
    /\ id[r] + 1 <= cap
    /\ LET e == request_send(id[r], method, params)
       IN /\ id' = [id EXCEPT ![r] = e.id]
          /\ block' = [block EXCEPT ![t] =
                 [relay |-> r, first |-> id[r], n |-> e.id - id[r]]]
          /\ issued' = [issued EXCEPT ![r] = @ \cup {e.next_id}]
          /\ reused' = [reused EXCEPT ![r] = @ \cup ({e.next_id} \cap issued[r])]
          /\ IF e.res.ok
             THEN /\ call' = [call EXCEPT ![t] =
                        [op |-> "request", relay |-> r, payload |-> e.res.payload]]
                  /\ posts' = [posts EXCEPT ![t] = 1]
                  /\ ret' = [ret EXCEPT ![t] = [op |-> "request", res |-> [pending |-> TRUE]]]
             ELSE /\ call' = call
                  /\ posts' = [posts EXCEPT ![t] = 0]
                  /\ ret' = [ret EXCEPT ![t] = [op |-> "request", res |-> e.res]]
    /\ UNCHANGED <<requests, held, responses, origin, arrival, drained, stamped>>

\* Relay::request after the body text arrived: the match on the parsed
\* Response, then the decoding of the result into R.
request_recv(text, R) ==
    LET p == ParseSingle(text)
    IN IF ~p.ok THEN [ok |-> FALSE, err |-> "SerdeJson"]
       ELSE IF p.val.type = "Error" THEN [ok |-> FALSE, err |-> "JsonRpcError"]
       ELSE IF p.val.type = "Notification" THEN [ok |-> FALSE, err |-> "SerdeJson"]
       ELSE LET d == FromStr(R, p.val.result)
            IN IF d.ok THEN [ok |-> TRUE, val |-> d.val]
               ELSE [ok |-> FALSE, err |-> "SerdeJson"]

\* The body text of the HTTP response arrives and request returns.
RequestReply(t, text, R) ==
    /\ call[t].op = "request"
    /\ call' = [call EXCEPT ![t] = NoCall]
    /\ ret' = [ret EXCEPT ![t] = [op |-> "request", res |-> request_recv(text, R)]]
    /\ UNCHANGED <<id, requests, held, responses, posts, block, issued, reused, origin, arrival, drained, stamped>>

\* batch.requests() by caller t.
CallRequests(t) ==
    /\ call[t].op = "none"
    /\ ret' = [ret EXCEPT ![t] = [op |-> "requests", res |-> requests_ref(requests[t])]]
    /\ UNCHANGED <<id, requests, call, held, responses, posts, block, issued, reused, origin, arrival, drained, stamped>>

\* batch.requests_mut() by caller t.
CallRequestsMut(t) ==
    /\ call[t].op = "none"
    /\ ret' = [ret EXCEPT ![t] = [op |-> "requests_mut", res |-> requests_mut(requests[t])]]
    /\ UNCHANGED <<id, requests, call, held, responses, posts, block, issued, reused, origin, arrival, drained, stamped>>

\* responses.id() by caller t on the batch it holds.
CallId(t) ==
    /\ call[t].op = "none"
    /\ held[t]
    /\ ret' = [ret EXCEPT ![t] = [op |-> "id", res |-> BatchResponse_id(responses[t])]]
    /\ UNCHANGED <<id, requests, call, held, responses, posts, block, issued, reused, origin, arrival, drained, stamped>>

\* ------------------------------------------------------ what the server sends
\* What the server computes for the request with id i: a storage word,
\* or an error for every third request.
Answer(i) ==
    IF i % 3 = 2 THEN ResponseError(i, [code |-> -32000, message |-> "execution reverted"])
    ELSE ResponseSuccess(i, [json |-> "string",
                             text |-> IF i % 2 = 0 THEN "0x1" ELSE "0x0"])

\* Bodies the server may answer a posted batch with: any array of at most
\* MaxResp answers to the ids of the payload and to one id outside it (in
\* any order, with entries missing or repeated), an array holding a
\* notification, or text that is no JSON array.
BatchReplies(payload) ==
    LET ids == PayloadIds(payload)
               \cup {IF Len(payload) = 0 THEN 0 ELSE payload[Len(payload)].id + 1}
    IN {JsonArray(a) : a \in ArraysOver({Answer(i) : i \in ids}, MaxResp)}
       \cup {JsonArray(<<ResponseNotification("eth_subscription")>>), Garbage}

\* Bodies where the server answers each request of the batch once, in the
\* reverse of the order sent, or with text that is no JSON array.
ExactReplies(payload) ==
    {JsonArray([i \in 1..Len(payload) |-> Answer(payload[Len(payload) + 1 - i].id)]),
     Garbage}

\* Bodies the server may answer a single request with a number in.
NumberReplies(payload) ==
    {JsonObject(ResponseSuccess(i, v)) : i \in PayloadIds(payload), v \in RawNumbers}

\* Bodies the server may answer a single request with.
SingleReplies(payload) ==
    {JsonObject(x) : x \in ResponsesOver(PayloadIds(payload), Bodies)}
    \cup {JsonObject(ResponseNotification("eth_subscription")), Garbage}

\* ------------------------------------------------------------ specifications
\* One caller runs the whole pipeline against an arbitrary server.
Caller == "t1"

Next ==
    \/ \E m \in Methods, p \in Params : AddRequest(Caller, m, p, MaxBatch)
    \/ \E r \in Relays : ExecuteBatch(Caller, r, MaxId)
    \/ TransportError(Caller)
    \/ Cancel(Caller)
    \/ /\ call[Caller].op = "execute_batch"
       /\ \E text \in BatchReplies(call[Caller].payload) : BatchReply(Caller, text)
    \/ \E T \in PipelineTypes : NextResponse(Caller, T)
    \/ \E r \in Relays, m \in Methods, p \in Params : Request(Caller, r, m, p, MaxId)
    \/ /\ call[Caller].op = "request"
       /\ \E text \in SingleReplies(call[Caller].payload)
                          \cup NumberReplies(call[Caller].payload), R \in TargetTypes :
             RequestReply(Caller, text, R)
    \/ CallRequests(Caller)
    \/ CallRequestsMut(Caller)
    \/ CallId(Caller)

Spec == Init /\ [][Next]_vars

\* Several callers share the relay; the server answers each request once.
NextConc ==
    \E t \in Tasks :
        \/ \E m \in Methods, p \in Params : AddRequest(t, m, p, MaxBatch)
        \/ \E r \in Relays : ExecuteBatch(t, r, MaxIdConc)
        \/ TransportError(t)
        \/ Cancel(t)
        \/ /\ call[t].op = "execute_batch"
           /\ \E text \in ExactReplies(call[t].payload) : BatchReply(t, text)
        \/ \E r \in Relays, m \in Methods, p \in Params : Request(t, r, m, p, MaxIdConc)
        \/ /\ call[t].op = "request"
           /\ \E text \in SingleReplies(call[t].payload), R \in TargetTypes :
                 RequestReply(t, text, R)

SpecConc == Init /\ [][NextConc]_vars

\* Two callers submit batches of SizeA and SizeB requests concurrently to a
\* relay that has handed out StartId ids in single requests before.
SizeOf(t) == IF t = "t1" THEN SizeA ELSE SizeB

NextTwo ==
    \/ /\ id["relay"] < StartId
       /\ Request("t1", "relay", "eth_getStorageAt", "addr1", StartId)
    \/ /\ call["t1"].op = "request"
       /\ RequestReply("t1", JsonObject(Answer(call["t1"].payload[1].id)), "String")
    \/ \E t \in Tasks : AddRequest(t, "eth_getStorageAt", "addr1", SizeOf(t))
    \/ \E t \in Tasks :
          /\ id["relay"] >= StartId
          /\ BatchRequest_len(requests[t]) = SizeOf(t)
          /\ ExecuteBatch(t, "relay", StartId + SizeA + SizeB)
    \/ \E t \in Tasks :
          /\ call[t].op = "execute_batch"
          /\ \E text \in ExactReplies(call[t].payload) : BatchReply(t, text)

SpecTwo == Init /\ [][NextTwo]_vars

\* A BatchResponse built from an arbitrary response array, then drained.
RespIds == {5, 7, 9}

InitResponse ==
    /\ id = [r \in Relays |-> Relay_new]
    /\ requests = [t \in Tasks |-> BatchRequest_new]
    /\ call = [t \in Tasks |-> NoCall]
    /\ ret = [t \in Tasks |-> [op |-> "none"]]
    /\ posts = [t \in Tasks |-> 0]
    /\ block = [t \in Tasks |-> NoBlock]
    /\ issued = [r \in Relays |-> {}]
    /\ reused = [r \in Relays |-> {}]
    /\ origin = [t \in Tasks |-> [first |-> 0, n |-> 0]]
    /\ drained = [t \in Tasks |-> << >>]
    /\ stamped = [t \in Tasks |-> 0]
    /\ \E a \in ArraysOver(ResponsesOver(RespIds, RespBodies), MaxResp) :
          /\ arrival = [t \in Tasks |-> IF t = Caller THEN a ELSE << >>]
          /\ responses = [t \in Tasks |-> IF t = Caller THEN BatchResponse_new(a) ELSE << >>]
    /\ held = [t \in Tasks |-> t = Caller]

NextResponseSpec ==
    \/ \E T \in TargetTypes : NextResponse(Caller, T)
    \/ CallId(Caller)

SpecResponse == InitResponse /\ [][NextResponseSpec]_vars

\* relay.clone(): a relay c with a counter of its own comes to exist beside
\* the relay r it is made from.
CloneRelay(c, r) ==
    /\ r \in DOMAIN id
    /\ c \notin DOMAIN id
    /\ id' = id @@ (c :> Relay_clone(id[r]))
    /\ issued' = issued @@ (c :> {})
    /\ reused' = reused @@ (c :> {})
    /\ UNCHANGED <<requests, call, held, responses, ret, posts, block, origin, arrival, drained, stamped>>

\* One caller uses a relay and the clone made of it at some point.
NextClone ==
    \/ CloneRelay("clone", "relay")
    \/ \E m \in Methods, p \in Params : AddRequest(Caller, m, p, MaxBatch)
    \/ \E r \in DOMAIN id : ExecuteBatch(Caller, r, MaxId)
    \/ \E r \in DOMAIN id, m \in Methods, p \in Params : Request(Caller, r, m, p, MaxId)
    \/ TransportError(Caller)
    \/ /\ call[Caller].op = "execute_batch"
       /\ \E text \in ExactReplies(call[Caller].payload) : BatchReply(Caller, text)
    \/ /\ call[Caller].op = "request"
       /\ RequestReply(Caller, JsonObject(Answer(call[Caller].payload[1].id)), "String")

SpecClone == Init /\ [][NextClone]_vars

\* ------------------------------------------------------------------ claims
\* The caller's last relay call was an execute_batch that posted its batch
\* (it is awaiting the response, or it has returned).
Submitted(t) == ret[t].op = "execute_batch" /\ posts[t] = 1

\* C1: a non-empty batch that execute_batch has stamped carries the ids
\* first, first+1, ..., first+n-1 in insertion order, first being the value
\* the relay's counter held when the block was reserved.
C1_StampedIdsAreSequential ==
    \A t \in Tasks :
        Submitted(t) =>
            /\ BatchRequest_len(requests[t]) >= 1
            /\ \A i \in 1..Len(requests[t]) :
                   requests[t][i].id = block[t].first + (i - 1)

\* C1 witness: a batch of MaxBatch requests stamped from a counter above 0.
C1_Witness ==
    /\ Submitted(Caller)
    /\ BatchRequest_len(requests[Caller]) = MaxBatch
    /\ block[Caller].first = 1
    /\ requests[Caller][MaxBatch].id = MaxBatch

\* The caller's last relay call was a single request that posted its payload.
SubmittedSingle(t) == ret[t].op = "request" /\ posts[t] = 1

\* C2: whatever the interleaving of execute_batch and request calls on one
\* relay, a batch gets a contiguous block of len(batch) ids, a single
\* request gets exactly one id, and no id is given to two calls.
C2_CallsGetDisjointIds ==
    /\ \A t \in Tasks :
          Submitted(t) =>
              /\ PayloadIds(requests[t]) = Block(block[t].first, BatchRequest_len(requests[t]))
              /\ block[t].n = BatchRequest_len(requests[t])
    /\ \A t \in Tasks :
          SubmittedSingle(t) =>
              /\ block[t].n = 1
              /\ call[t].op = "request" => PayloadIds(call[t].payload) = {block[t].first}
    /\ \A t, u \in Tasks :
          (t # u /\ call[t].op # "none" /\ call[u].op # "none"
                 /\ call[t].relay = call[u].relay) =>
              PayloadIds(call[t].payload) \cap PayloadIds(call[u].payload) = {}
    /\ \A r \in Relays : reused[r] = {}

\* C2 witness: a batch of MaxBatch requests and a single request are in
\* flight together, the single id lying right behind the batch's block,
\* after an earlier call took id 0.
C2_Witness ==
    /\ call["t1"].op = "execute_batch"
    /\ call["t2"].op = "request"
    /\ BatchRequest_len(requests["t1"]) = MaxBatch
    /\ block["t1"].first = 1
    /\ block["t2"].first = 1 + MaxBatch

\* The ids stamped into the caller's batch.
IdsOf(t) == PayloadIds(requests[t])

\* C3 as stated: the batch of SizeA gets StartId.. and the batch of SizeB
\* the ids behind it, whichever call reserves first.
C3_Original ==
    (Submitted("t1") /\ Submitted("t2")) =>
        /\ IdsOf("t1") = Block(StartId, SizeA)
        /\ IdsOf("t2") = Block(StartId + SizeA, SizeB)

\* C3 amended: the two id sets are disjoint and together cover the
\* SizeA + SizeB ids from StartId on; the call that reserves first gets
\* the lower block, so the sets are {10,11,12} and {13,14} when the batch
\* of 3 reserves first, and {12,13,14} and {10,11} when the batch of 2 does.
C3_TwoBatchesDisjoint ==
    (Submitted("t1") /\ Submitted("t2")) =>
        /\ IdsOf("t1") \cap IdsOf("t2") = {}
        /\ IdsOf("t1") \cup IdsOf("t2") = Block(StartId, SizeA + SizeB)
        /\ \/ /\ IdsOf("t1") = Block(StartId, SizeA)
              /\ IdsOf("t2") = Block(StartId + SizeA, SizeB)
           \/ /\ IdsOf("t2") = Block(StartId, SizeB)
              /\ IdsOf("t1") = Block(StartId + SizeB, SizeA)

\* C3 witness: both calls are in flight and the batch of SizeB reserved first.
C3_Witness ==
    /\ call["t1"].op = "execute_batch"
    /\ call["t2"].op = "execute_batch"
    /\ IdsOf("t2") = Block(StartId, SizeB)
    /\ IdsOf("t1") = Block(StartId + SizeB, SizeA)

\* The ids of a sequence of responses, of entries or of extractions.
ArrayIds(a) == [i \in 1..Len(a) |-> a[i].id]

EntryIds(e) == [i \in 1..Len(e) |-> e[i][1]]

\* How often i occurs in a sequence of ids.
CountId(ids, i) == Cardinality({j \in 1..Len(ids) : ids[j] = i})

\* The extractions that returned Some: the first Len(arrival) calls.
Extracted(t) ==
    SubSeq(drained[t], 1, IF Len(drained[t]) < Len(arrival[t])
                          THEN Len(drained[t]) ELSE Len(arrival[t]))

\* C4: next_response extracts the entries of a BatchResponse in ascending id
\* order, the lowest remaining id first, whatever the arrival order, and each
\* extraction removes the entry it returns; the array
\* [{id:1,"0x0"},{id:0,"0x1"}] drains as "0x1" then "0x0".
C4_DrainsInAscendingIdOrder ==
    \A t \in Tasks :
        held[t] =>
            LET x == Extracted(t)
                left == EntryIds(responses[t])
            IN /\ \A j \in 1..Len(x) :
                      /\ x[j].ret.some
                      /\ \A k \in (j + 1)..Len(x) : x[j].id <= x[k].id
                      /\ \A k \in 1..Len(left) : x[j].id <= left[k]
               /\ \A i \in {arrival[t][k].id : k \in 1..Len(arrival[t])} :
                      CountId(ArrayIds(arrival[t]), i)
                          = CountId(ArrayIds(x), i) + CountId(left, i)
               /\ (arrival[t] = <<ResponseSuccess(1, [json |-> "string", text |-> "0x0"]),
                                  ResponseSuccess(0, [json |-> "string", text |-> "0x1"])>>
                   /\ Len(x) = 2)
                      => /\ x[1].ret = [some |-> TRUE, ok |-> TRUE, val |-> "0x1"]
                         /\ x[2].ret = [some |-> TRUE, ok |-> TRUE, val |-> "0x0"]

\* C4 witness: the array [{id:1,"0x0"},{id:0,"0x1"}] answered a batch of two
\* and has been drained.
C4_Witness ==
    /\ held[Caller]
    /\ arrival[Caller] = <<ResponseSuccess(1, [json |-> "string", text |-> "0x0"]),
                           ResponseSuccess(0, [json |-> "string", text |-> "0x1"])>>
    /\ Len(drained[Caller]) = 2
    /\ drained[Caller][1].ret.val = "0x1"
    /\ drained[Caller][2].ret.val = "0x0"
    /\ responses[Caller] = << >>

\* Every array with the content of a in another order.
PermutationsOf(a) ==
    {[i \in 1..Len(a) |-> a[f[i]]] :
        f \in {g \in [1..Len(a) -> 1..Len(a)] : \A i, j \in 1..Len(a) : g[i] = g[j] => i = j}}

\* The results of draining the entries with one next_response per type of Ts.
RECURSIVE DrainAll(_, _)
DrainAll(entries, Ts) ==
    IF Ts = << >> THEN << >>
    ELSE LET n == next_response(entries, Head(Ts))
         IN <<n.ret>> \o DrainAll(n.responses, Tail(Ts))

\* The ids draining the entries meets, lowest first.
RECURSIVE DrainIds(_)
DrainIds(entries) ==
    IF BatchResponse_is_empty(entries) THEN << >>
    ELSE <<BatchResponse_id(entries).val>> \o DrainIds(next_response(entries, "String").responses)

TypesOf(d) == [j \in 1..Len(d) |-> d[j].T]

RetsOf(d) == [j \in 1..Len(d) |-> d[j].ret]

DistinctIds(a) == \A i, j \in 1..Len(a) : a[i].id = a[j].id => i = j

\* The call that extracts the entry at position q of the array: behind every
\* entry with a lower id and every later entry with the same id.
ExtractionOf(a, q) ==
    1 + Cardinality({k \in 1..Len(a) : a[k].id < a[q].id \/ (a[k].id = a[q].id /\ k > q)})

\* C5 as stated: a BatchResponse built from any permutation of the array
\* drains to the same sequence of results.
C5_Original ==
    \A p \in PermutationsOf(arrival[Caller]) :
        DrainAll(BatchResponse_new(p), TypesOf(drained[Caller])) = RetsOf(drained[Caller])

\* What the code does keep of C5: every permutation of the array drains to
\* the ascending sequence of ids that was drained, and to the same sequence
\* of results when no id occurs twice in the array; entries that share an id
\* come out latest-arrived first, which is where the permutations differ.
C5_PermutationsDrainAlike ==
    LET a == arrival[Caller]
        d == drained[Caller]
    IN /\ Len(d) = Len(a) =>
              \A p \in PermutationsOf(a) :
                  /\ DrainIds(BatchResponse_new(p)) = ArrayIds(d)
                  /\ DistinctIds(a) => DrainAll(BatchResponse_new(p), TypesOf(d)) = RetsOf(d)
       /\ \A q \in 1..Len(a) :
              LET j == ExtractionOf(a, q)
              IN j <= Len(d) =>
                     /\ d[j].id = a[q].id
                     /\ d[j].ret = DecodeBody(d[j].T, ResponseEntry(a[q])[2])

\* An array of three distinct ids that arrived neither ascending
\* nor descending, with an error entry among them, has been drained.
C5_Witness ==
    /\ ArrayIds(arrival[Caller]) = <<7, 9, 5>>
    /\ arrival[Caller][2].type = "Error"
    /\ Len(drained[Caller]) = 3
    /\ ArrayIds(drained[Caller]) = <<5, 7, 9>>
    /\ drained[Caller][3].ret.err = "JsonRpcError"

\* C6 as stated: the Nth extraction from the BatchResponse that execute_batch
\* returned for a batch of n requests is the entry for the Nth request, the
\* one with id first + N - 1.
C6_NthExtractionIsNthRequest ==
    \A t \in Tasks :
        held[t] =>
            \A N \in 1..Len(drained[t]) :
                N <= origin[t].n =>
                    /\ drained[t][N].ret # [some |-> FALSE]
                    /\ drained[t][N].id = origin[t].first + (N - 1)

\* C7: of the next_response calls on a BatchResponse of n entries the first n
\* return Some and remove one entry each, whatever the result; the calls
\* after them return None and leave the batch empty.
C7_DrainsThenNone ==
    LET n == Len(arrival[Caller])
        d == drained[Caller]
    IN /\ \A j \in 1..Len(d) : (d[j].ret # [some |-> FALSE]) <=> (j <= n)
       /\ BatchResponse_len(responses[Caller]) = IF Len(d) <= n THEN n - Len(d) ELSE 0
       /\ BatchResponse_is_empty(responses[Caller]) <=> (Len(d) >= n)

\* C7 witness: a BatchResponse of MaxResp entries gave an Ok, a typed-decoding
\* failure and a JSON-RPC error, and then None on every further call.
C7_Witness ==
    LET n == Len(arrival[Caller])
        d == drained[Caller]
    IN /\ n = MaxResp
       /\ Len(d) = MaxResp + ExtraCalls
       /\ \E j \in 1..n : d[j].ret = [some |-> TRUE, ok |-> TRUE, val |-> "0x1"]
       /\ \E j \in 1..n : d[j].ret = [some |-> TRUE, ok |-> FALSE, err |-> "JsonError"]
       /\ \E j \in 1..n : d[j].ret = [some |-> TRUE, ok |-> FALSE, err |-> "JsonRpcError"]
       /\ d[Len(d)].ret = [some |-> FALSE]
       /\ responses[Caller] = << >>

\* What execute_batch returns for an empty batch.
EmptyBatchError == [ok |-> FALSE, err |-> "BatchError", source |-> "EmptyBatch"]

\* The caller's last call was an add_request on an empty batch.
AddedToEmpty(t) ==
    /\ ret[t].op = "add_request"
    /\ BatchRequest_len(requests[t]) = IF ret[t].res = [ok |-> TRUE] THEN 1 ELSE 0

\* requests, requests_mut and set_ids (through execute_batch) on an empty
\* BatchRequest and id on an empty BatchResponse return EmptyBatch.
EmptyCallsFail(t) ==
    /\ (ret[t].op \in {"requests", "requests_mut"} /\ BatchRequest_is_empty(requests[t]))
          => ret[t].res = EmptyBatch
    /\ (ret[t].op = "execute_batch" /\ BatchRequest_is_empty(requests[t]))
          => ret[t].res = EmptyBatchError
    /\ (ret[t].op = "id" /\ BatchResponse_is_empty(responses[t]))
          => ret[t].res = EmptyBatch

\* C8 as stated: add_request too fails with EmptyBatch on an empty batch.
C8_Original ==
    \A t \in Tasks :
        /\ EmptyCallsFail(t)
        /\ AddedToEmpty(t) => ret[t].res = EmptyBatch

\* C8 amended: requests, requests_mut and set_ids on an empty BatchRequest
\* and id on an empty BatchResponse fail with EmptyBatch; add_request on an
\* empty BatchRequest never does: it appends the request with id 0 and
\* returns Ok, or returns the serialization error and leaves the batch empty.
C8_EmptyBatchErrors ==
    \A t \in Tasks :
        /\ EmptyCallsFail(t)
        /\ AddedToEmpty(t) =>
              \/ /\ ret[t].res = [ok |-> TRUE]
                 /\ BatchRequest_len(requests[t]) = 1
                 /\ requests[t][1].id = 0
              \/ /\ ret[t].res = [ok |-> FALSE, err |-> "JsonError"]
                 /\ requests[t] = << >>

\* C8 witness: requests_mut was called on an empty batch and returned
\* EmptyBatch.
C8_Witness ==
    /\ requests[Caller] = << >>
    /\ ret[Caller] = [op |-> "requests_mut", res |-> EmptyBatch]

\* C9: execute_batch on a batch of zero requests returns the EmptyBatch
\* error, posts nothing to the transport and leaves the counter where it was.
C9_EmptyBatchIsAnError ==
    \A t \in Tasks :
        (ret[t].op = "execute_batch" /\ BatchRequest_is_empty(requests[t])) =>
            /\ ret[t].res = EmptyBatchError
            /\ posts[t] = 0
            /\ call[t] = NoCall
            /\ block[t].n = 0
            /\ id[block[t].relay] >= block[t].first

\* C9 witness: an empty batch was submitted to a relay whose counter was 1,
\* and the counter is still 1.
C9_Witness ==
    /\ requests[Caller] = << >>
    /\ ret[Caller] = [op |-> "execute_batch", res |-> EmptyBatchError]
    /\ block[Caller] = [relay |-> "relay", first |-> 1, n |-> 0]
    /\ id["relay"] = 1

\* The ids of the array that no extraction has returned yet.
RemainingIds(t) ==
    {i \in {arrival[t][k].id : k \in 1..Len(arrival[t])} :
        CountId(ArrayIds(arrival[t]), i) > CountId(ArrayIds(Extracted(t)), i)}

\* What id() is to return: the smallest remaining id, or EmptyBatch.
ExpectedId(t) ==
    IF RemainingIds(t) = {} THEN EmptyBatch
    ELSE [ok |-> TRUE,
          val |-> CHOOSE m \in RemainingIds(t) : \A k \in RemainingIds(t) : m <= k]

\* C10: id() returns the smallest id among the entries not yet extracted (5
\* for a fresh batch with the ids 5, 7 and 9), EmptyBatch exactly when none
\* remains, and removes nothing.
C10_IdIsSmallestRemaining ==
    LET t == Caller
    IN /\ BatchResponse_id(responses[t]) = ExpectedId(t)
       /\ ret[t].op = "id" =>
              /\ ret[t].res = ExpectedId(t)
              /\ BatchResponse_len(responses[t]) = Len(arrival[t]) - Len(Extracted(t))
       /\ (ret[t].op = "id" /\ drained[t] = << >>
              /\ {arrival[t][k].id : k \in 1..Len(arrival[t])} = {5, 7, 9})
             => ret[t].res = [ok |-> TRUE, val |-> 5]
       /\ (BatchResponse_id(responses[t]) = EmptyBatch) <=> (RemainingIds(t) = {})

\* C10 witness: id() on a fresh batch whose entries arrived as 7, 9, 5, a
\* success between two errors, returned 5.
C10_Witness ==
    /\ ArrayIds(arrival[Caller]) = <<7, 9, 5>>
    /\ arrival[Caller][1].type = "Error"
    /\ arrival[Caller][2].type = "Success"
    /\ drained[Caller] = << >>
    /\ ret[Caller] = [op |-> "id", res |-> [ok |-> TRUE, val |-> 5]]

\* C11: an array with error entries makes execute_batch succeed; an error
\* entry comes out as Some(Err(JsonRpcError)) of the one next_response call
\* that extracts it, and every other entry comes out of its own call, in
\* ascending id order, with its result.
C11_ErrorsSurfaceLazily ==
    \A t \in Tasks :
        /\ call[t].op = "execute_batch" =>
              \A text \in BatchReplies(call[t].payload) :
                  (text.json = "array" /\ ~HitsUnreachable(text.elems))
                      => execute_batch_recv(text).ok
        /\ held[t] =>
              \A q \in 1..Len(arrival[t]) :
                  LET a == arrival[t]
                      d == drained[t]
                      j == ExtractionOf(a, q)
                  IN j <= Len(d) =>
                         /\ d[j].id = a[q].id
                         /\ (a[q].type = "Error")
                               <=> (d[j].ret = [some |-> TRUE, ok |-> FALSE, err |-> "JsonRpcError"])
                         /\ (a[q].type = "Success" /\ d[j].T = "String")
                               => d[j].ret = [some |-> TRUE, ok |-> TRUE, val |-> a[q].result.text]

\* C11 witness: the batch with the ids 1 and 2 was answered with the entries
\* 3, 2, 1, the one for id 2 an error; the three extractions gave Ok, the
\* error, Ok.
C11_Witness ==
    /\ held[Caller]
    /\ origin[Caller] = [first |-> 1, n |-> 2]
    /\ arrival[Caller] = <<Answer(3), Answer(2), Answer(1)>>
    /\ arrival[Caller][2].type = "Error"
    /\ RetsOf(drained[Caller])
          = <<[some |-> TRUE, ok |-> TRUE, val |-> "0x0"],
              [some |-> TRUE, ok |-> FALSE, err |-> "JsonRpcError"],
              [some |-> TRUE, ok |-> TRUE, val |-> "0x0"]>>

\* The caller's execute_batch lost its round trip: the transport failed or
\* the caller dropped the call at its await.
RoundTripLost(t) ==
    /\ ret[t].op = "execute_batch"
    /\ ret[t].res \in {[ok |-> FALSE, err |-> "ReqwestError"], [cancelled |-> TRUE]}

\* C12: an execute_batch whose round trip failed or was cancelled after the
\* block was reserved gives the caller no BatchResponse, and the block stays
\* taken: the counter stays past it and no other call on that relay gets
\* one of its ids.
C12_LostRoundTripKeepsIds ==
    \A t \in Tasks :
        RoundTripLost(t) =>
            /\ call[t] = NoCall
            /\ posts[t] = 1
            /\ ~(held[t] /\ origin[t].first = block[t].first)
            /\ block[t].n = BatchRequest_len(requests[t])
            /\ block[t].n >= 1
            /\ id[block[t].relay] >= block[t].first + block[t].n
            /\ reused[block[t].relay] = {}
            /\ \A u \in Tasks \ {t} :
                   /\ block[u].relay = block[t].relay =>
                         Block(block[u].first, block[u].n)
                             \cap Block(block[t].first, block[t].n) = {}
                   /\ call[u].relay = block[t].relay =>
                         PayloadIds(call[u].payload)
                             \cap Block(block[t].first, block[t].n) = {}

\* C12 witness: the batch holding the ids 0 and 1 failed in the transport,
\* and the batch another caller submitted afterwards got the ids 2 and 3.
C12_Witness ==
    /\ RoundTripLost("t1")
    /\ ret["t1"].res = [ok |-> FALSE, err |-> "ReqwestError"]
    /\ block["t1"] = [relay |-> "relay", first |-> 0, n |-> 2]
    /\ call["t2"].op = "execute_batch"
    /\ PayloadIds(call["t2"].payload) = {2, 3}
    /\ id["relay"] = 4

\* The caller's execute_batch has ended (a call dropped at its await has
\* not) with a result among the outcomes, having posted at most once.
EndsWithin(t, outcomes) ==
    (ret[t].op = "execute_batch" /\ call[t] = NoCall /\ ret[t].res # [cancelled |-> TRUE]) =>
        /\ ret[t].res \in outcomes
        /\ posts[t] <= 1
        /\ ret[t].res = [ok |-> TRUE] => (held[t] /\ posts[t] = 1)
        /\ ret[t].res = EmptyBatchError <=> BatchRequest_is_empty(requests[t])
        /\ ret[t].res = EmptyBatchError => posts[t] = 0

\* The four outcomes: a BatchResponse, ReqwestError, SerdeJson with the
\* response text, BatchError(EmptyBatch).
FourOutcomes ==
    {[ok |-> TRUE], [ok |-> FALSE, err |-> "ReqwestError"],
     [ok |-> FALSE, err |-> "SerdeJson", text |-> Garbage], EmptyBatchError}

\* The outcomes with the panic of the constructor among them.
FiveOutcomes == FourOutcomes \cup {[ok |-> FALSE, err |-> "panic"]}

\* C13 as stated: every execute_batch call ends in one of the four outcomes
\* and posts its payload at most once.
C13_FourOutcomes == \A t \in Tasks : EndsWithin(t, FourOutcomes)

\* Every execute_batch call ends in one of the four outcomes or in the
\* panic of the constructor.
OutcomesOrPanic == \A t \in Tasks : EndsWithin(t, FiveOutcomes)

\* C14 as stated: whatever array the server returns, execute_batch never
\* hands a Notification to the constructor, so the call never ends in the
\* panic of its unreachable branch.
C14_NotificationsKeptOut ==
    \A t \in Tasks :
        ret[t].op = "execute_batch" => ret[t].res # [ok |-> FALSE, err |-> "panic"]

\* C15 as stated: no step, add_request or execute_batch, changes the id of
\* a request that a submission has stamped.
C15_StampedOnce ==
    [][\A t \in Tasks :
          \A i \in 1..stamped[t] : requests'[t][i].id = requests[t][i].id]_vars

\* A step in which caller t's add_request returned.
AddRequestStep(t) ==
    /\ ret'[t].op = "add_request"
    /\ <<requests[t], ret[t]>>' # <<requests[t], ret[t]>>

\* C16: an add_request that returns Ok has appended one request with the
\* placeholder id 0 behind the requests the batch held, which keep their
\* ids; one that returns the serialization error has left the batch as it
\* was; neither touches a relay's counter or another batch.
C16_AddRequestFrame ==
    [][\A t \in Tasks :
          AddRequestStep(t) =>
              /\ id' = id
              /\ \A u \in Tasks \ {t} : requests'[u] = requests[u]
              /\ IF ret'[t].res = [ok |-> TRUE]
                 THEN /\ BatchRequest_len(requests'[t]) = BatchRequest_len(requests[t]) + 1
                      /\ SubSeq(requests'[t], 1, Len(requests[t])) = requests[t]
                      /\ requests'[t][Len(requests'[t])].id = 0
                 ELSE /\ ret'[t].res = [ok |-> FALSE, err |-> "JsonError"]
                      /\ requests'[t] = requests[t]]_vars

\* C16 witness: a request was added to a batch whose first request had been
\* stamped 1: the batch holds the ids 1 and 0 and the counter is still 2.
C16_Witness ==
    /\ ret[Caller] = [op |-> "add_request", res |-> [ok |-> TRUE]]
    /\ stamped[Caller] = 1
    /\ ArrayIds(requests[Caller]) = <<1, 0>>
    /\ id["relay"] = 2

\* A step in which caller t's execute_batch or request makes its
\* reservation: the call starts, and returns at once or reaches its await.
ReservationStep(t) ==
    /\ call[t].op = "none"
    /\ ret'[t].op \in {"execute_batch", "request"}
    /\ <<ret[t], call[t], block[t]>>' # <<ret[t], call[t], block[t]>>

\* What the reservation of the step takes: len(batch), or 1.
ReservedBy(t) ==
    IF ret'[t].op = "execute_batch" THEN BatchRequest_len(requests[t]) ELSE 1

\* C17: a relay's counter is its initial value plus the number of ids
\* reserved so far. Every execute_batch adds len(batch) and every request
\* adds 1, whatever becomes of the call; no other step changes the counter;
\* and a non-empty reservation starts above the first id of every earlier
\* one on that relay.
C17_CounterIsSumOfReservations ==
    [][/\ \A r \in Relays :
             /\ id'[r] >= id[r]
             /\ id'[r] = Relay_new + Cardinality(issued'[r])
             /\ issued'[r] = Block(Relay_new, id'[r] - Relay_new)
       /\ \A t \in Tasks :
             IF ReservationStep(t)
             THEN LET r == block'[t].relay
                  IN /\ id'[r] = id[r] + ReservedBy(t)
                     /\ block'[t].first = id[r]
                     /\ ReservedBy(t) > 0 =>
                            \A u \in Tasks :
                                (block[u].relay = r /\ block[u].n > 0)
                                    => block[u].first < block'[t].first
             ELSE (\A u \in Tasks \ {t} : ~ReservationStep(u)) => id' = id]_vars

\* C17 witness: a single request took id 0, a batch of two took 1 and 2 and
\* was cancelled, and the counter is at 3.
C17_Witness ==
    /\ block["t2"] = [relay |-> "relay", first |-> 0, n |-> 1]
    /\ block["t1"] = [relay |-> "relay", first |-> 1, n |-> 2]
    /\ ret["t1"] = [op |-> "execute_batch", res |-> [cancelled |-> TRUE]]
    /\ issued["relay"] = {0, 1, 2}
    /\ id["relay"] = 3

\* The entries BatchResponse::new makes of an array, as a bag: how often
\* each (id, body) pair occurs.
CountEntry(entries, e) == Cardinality({k \in 1..Len(entries) : entries[k] = e})

\* The constructed entries are exactly the entries of the array.
HoldsExactly(entries, array) ==
    /\ BatchResponse_len(entries) = Len(array)
    /\ \A q \in 1..Len(array) :
           CountEntry(entries, ResponseEntry(array[q]))
               = Cardinality({k \in 1..Len(array) : array[k] = array[q]})

\* C18: execute_batch succeeds for every body that parses as an array of
\* Success and Error entries, whatever ids it carries, and the BatchResponse
\* it returns holds exactly the entries of the array: as many as the array
\* has, with the ids the server sent, also when entries of the batch are
\* missing, repeated or foreign.
C18_ArrayIsNotValidated ==
    \A t \in Tasks :
        /\ call[t].op = "execute_batch" =>
              \A text \in BatchReplies(call[t].payload) :
                  (text.json = "array" /\ ~HitsUnreachable(text.elems)) =>
                      /\ execute_batch_recv(text).ok
                      /\ HoldsExactly(execute_batch_recv(text).val, text.elems)
        /\ ret[t] = [op |-> "execute_batch", res |-> [ok |-> TRUE]] =>
              /\ held[t]
              /\ drained[t] = << >>
              /\ HoldsExactly(responses[t], arrival[t])

\* C18 witness: the batch with the ids 0 and 1 was answered with an entry
\* for id 2 and two entries for id 1, and execute_batch returned a
\* BatchResponse of three entries.
C18_Witness ==
    /\ ret[Caller] = [op |-> "execute_batch", res |-> [ok |-> TRUE]]
    /\ origin[Caller] = [first |-> 0, n |-> 2]
    /\ arrival[Caller] = <<Answer(2), Answer(1), Answer(1)>>
    /\ EntryIds(responses[Caller]) = <<2, 1, 1>>

\* C19: a relay from new counts from 0 and a clone counts from 1, whatever
\* the original's counter held when the clone was made; each counter is its
\* start plus the ids its own relay handed out, so neither relay's calls
\* move the other's counter, and every id from 1 on that both have handed
\* out is shared by them.
C19_CloneCountsFromOne ==
    /\ Relay_new = 0
    /\ id["relay"] = Cardinality(issued["relay"])
    /\ issued["relay"] = Block(0, id["relay"])
    /\ "clone" \in DOMAIN id =>
          /\ id["clone"] = 1 + Cardinality(issued["clone"])
          /\ issued["clone"] = Block(1, id["clone"] - 1)
          /\ issued["relay"] \cap issued["clone"]
                = {i \in 1..MaxId : i < id["relay"] /\ i < id["clone"]}

\* C19 witness: the original handed out 0, 1 and 2, its clone 1 and 2.
C19_Witness ==
    /\ "clone" \in DOMAIN id
    /\ id["relay"] = 3
    /\ id["clone"] = 3
    /\ issued["relay"] \cap issued["clone"] = {1, 2}
    /\ block[Caller].relay = "clone"

====
